---- MODULE Spec2Model ----
(***************************************************************************)
(* A model of roll_post.py: the script that renames a dated blog post so   *)
(* that its file name carries today's date.                                *)
(*                                                                         *)
(* A path is a sequence of one-character strings.  The file system is a    *)
(* function from the paths of the existing files to their contents; a      *)
(* content is a number that identifies the file's bytes.  The script is    *)
(* modelled line by line (pc is the line about to run), the system clock   *)
(* advances on its own, and the script can be invoked several times.       *)
(* Paths contain no "/" after the directory prefix, so the directory of    *)
(* the destination exists whenever the source file does.                   *)
(***************************************************************************)
EXTENDS Integers, Sequences, FiniteSets, TLC

VARIABLES
    fs,        \* the file system: existing path -> contents
    fs0,       \* the file system when the current run was invoked
    clock,     \* the system clock's local date
    ticks,     \* how many times the clock has advanced
    platform,  \* "posix" or "windows": decides os.rename on an existing target
    pc,        \* "idle", "l7", "l9", "l12", "done", "error"
    post,      \* line 6: sys.argv[1]
    parts,     \* lines 7-8: the match's groupdict (its title group)
    today,     \* line 9: datetime.datetime.today()
    new_post,  \* line 10: the destination path
    exit,      \* the process's exit code, -1 while it has not exited
    attempts,  \* calls of os.rename made by the current run
    renames,   \* calls of os.rename of the current run that returned normally
    runs,      \* invocations so far
    last       \* the previous run when it succeeded: its new_post, title, day

vars == <<fs, fs0, clock, ticks, platform, pc, post, parts, today, new_post,
          exit, attempts, renames, runs, last>>

-----------------------------------------------------------------------------
(* Bounds *)

MaxTitleParts == 2
MaxFiles == 2
MaxRuns == 2
MaxTicks == 1

-----------------------------------------------------------------------------
(* Characters and dates *)

NL == "\n"

Digits == <<"0", "1", "2", "3", "4", "5", "6", "7", "8", "9">>

IsDigit(c) == \E i \in 1..Len(Digits) : Digits[i] = c

Pow10(n) == IF n = 0 THEN 1 ELSE IF n = 1 THEN 10 ELSE IF n = 2 THEN 100 ELSE 1000

\* n in decimal, zero-padded to w digits (w <= 4)
Pad(n, w) == [i \in 1..w |-> Digits[((n \div Pow10(w - i)) % 10) + 1]]

Dash == <<"-">>

\* n in decimal, without padding
RECURSIVE Decimal(_)
Decimal(n) == IF n < 10 THEN <<Digits[n + 1]>>
              ELSE Decimal(n \div 10) \o <<Digits[(n % 10) + 1]>>

\* a slip in the format: "%Y-%m-%m", the month where the day belongs
Strftime_month_twice(date) ==
    Pad(date.y, 4) \o Dash \o Pad(date.m, 2) \o Dash \o Pad(date.m, 2)

\* a slip in the format: "%Y-%-m-%-d", month and day without zero padding
Strftime_unpadded(date) ==
    Pad(date.y, 4) \o Dash \o Decimal(date.m) \o Dash \o Decimal(date.d)

\* strftime("%Y-%m-%d"); the clock's years have four digits
Strftime(date) == Pad(date.y, 4) \o Dash \o Pad(date.m, 2) \o Dash \o Pad(date.d, 2)

NoDate == [y |-> 0, m |-> 0, d |-> 0]

StartDate == [y |-> 2024, m |-> 6, d |-> 15]

IsLeap(y) == (y % 4 = 0 /\ y % 100 # 0) \/ y % 400 = 0

DaysIn(y, m) ==
    IF m = 2 THEN (IF IsLeap(y) THEN 29 ELSE 28)
    ELSE IF m \in {4, 6, 9, 11} THEN 30 ELSE 31

NextDay(date) ==
    IF date.d < DaysIn(date.y, date.m) THEN [date EXCEPT !.d = date.d + 1]
    ELSE IF date.m < 12 THEN [date EXCEPT !.m = date.m + 1, !.d = 1]
    ELSE [y |-> date.y + 1, m |-> 1, d |-> 1]

-----------------------------------------------------------------------------
(* The regular expression of line 7 *)

Lit(c) == [kind |-> "lit", ch |-> c]
DigitTok == [kind |-> "digit", ch |-> ""]
DotTok == [kind |-> "dot", ch |-> ""]

Lits(s) == [i \in 1..Len(s) |-> Lit(s[i])]
Rep(tok, n) == [i \in 1..n |-> tok]

PostsDir == <<"_", "p", "o", "s", "t", "s", "/">>
DotMd == <<".", "m", "d">>

\* _posts/(\d{4})-(\d{2})-(\d{2})-
PatternHead ==
    Lits(PostsDir) \o Rep(DigitTok, 4) \o Lits(Dash) \o Rep(DigitTok, 2)
        \o Lits(Dash) \o Rep(DigitTok, 2) \o Lits(Dash)

\* .md   (the dot is not escaped: it stands for any character but a newline)
PatternTail == <<DotTok, Lit("m"), Lit("d")>>

TokOk(tok, c) ==
    CASE tok.kind = "lit" -> c = tok.ch
      [] tok.kind = "digit" -> IsDigit(c)
      [] tok.kind = "dot" -> c # NL

\* the tokens match s from position i on
MatchesAt(toks, s, i) ==
    /\ i + Len(toks) - 1 <= Len(s)
    /\ \A k \in 1..Len(toks) : TokOk(toks[k], s[i + k - 1])

SetMax(S) == CHOOSE x \in S : \A z \in S : z <= x

NoMatch == [matched |-> FALSE, title |-> <<>>]

\* the ends e of the span b..e that (?P<title>.*) can take: no newline in it,
\* and the tail matches right after it
TitleEnds(s, b) ==
    {e \in (b - 1)..Len(s) :
        /\ \A k \in b..e : s[k] # NL
        /\ MatchesAt(PatternTail, s, e + 1)}

\* re.match(pattern, s): anchored at the start only, .* greedy
re_match(s) ==
    IF ~MatchesAt(PatternHead, s, 1) THEN NoMatch
    ELSE LET b == Len(PatternHead) + 1
             ends == TitleEnds(s, b)
         IN IF ends = {} THEN NoMatch
            ELSE [matched |-> TRUE, title |-> SubSeq(s, b, SetMax(ends))]

\* line 10: f'_posts/{today.strftime("%Y-%m-%d")}-{parts["title"]}.md'
NewPost(date, title) == PostsDir \o Strftime(date) \o Dash \o title \o DotMd

-----------------------------------------------------------------------------
(* os.rename *)

Platforms == {"posix", "windows"}

Remove(f, p) == [q \in (DOMAIN f) \ {p} |-> f[q]]

Put(f, p, c) == [q \in (DOMAIN f) \cup {p} |-> IF q = p THEN c ELSE f[q]]

\* a rename that copies and forgets to remove the source
os_rename_keeps_source(f, src, dst, plat) ==
    IF src \notin DOMAIN f THEN [ok |-> FALSE, fs |-> f]
    ELSE IF src = dst THEN [ok |-> TRUE, fs |-> f]
    ELSE IF dst \in DOMAIN f /\ plat = "windows" THEN [ok |-> FALSE, fs |-> f]
    ELSE [ok |-> TRUE, fs |-> Put(f, dst, f[src])]

\* a rename that swallows the error of a missing source
os_rename_ignores_missing(f, src, dst, plat) ==
    IF src \notin DOMAIN f THEN [ok |-> TRUE, fs |-> f]
    ELSE IF src = dst THEN [ok |-> TRUE, fs |-> f]
    ELSE IF dst \in DOMAIN f /\ plat = "windows" THEN [ok |-> FALSE, fs |-> f]
    ELSE [ok |-> TRUE, fs |-> Put(Remove(f, src), dst, f[src])]

\* os.rename(src, dst) on the file system f, in one atomic step:
\*   a missing source raises FileNotFoundError;
\*   renaming a file to itself succeeds and changes nothing;
\*   an existing destination file raises FileExistsError on Windows and is
\*   silently replaced on POSIX;
\*   otherwise the file moves, contents unaltered.
os_rename(f, src, dst, plat) ==
    IF src \notin DOMAIN f THEN [ok |-> FALSE, fs |-> f]
    ELSE IF src = dst THEN [ok |-> TRUE, fs |-> f]
    ELSE IF dst \in DOMAIN f /\ plat = "windows" THEN [ok |-> FALSE, fs |-> f]
    ELSE [ok |-> TRUE, fs |-> Put(Remove(f, src), dst, f[src])]

-----------------------------------------------------------------------------
(* The paths the model runs the script on *)

NotesDir == <<"n", "o", "t", "e", "s", "/">>
OldDate == <<"2", "0", "2", "3", "-", "0", "1", "-", "0", "1">>
BadDate == <<"2", "0", "2", "3", "-", "1", "-", "0", "1">>
XMd == <<"x", "m", "d">>
Bak == <<".", "b", "a", "k">>

Path(dir, date, title, suffix) == dir \o date \o Dash \o title \o suffix

\* the files that may exist at the start, and the paths a run may name
FilePaths ==
    <<Path(PostsDir, OldDate, <<"a">>, DotMd),
      Path(PostsDir, Strftime(StartDate), <<"a">>, DotMd),
      Path(PostsDir, OldDate, <<"a", "-", "b">>, DotMd),
      Path(PostsDir, OldDate, <<"a">>, DotMd \o Bak),
      Path(PostsDir, Strftime(StartDate), <<"a">> \o DotMd \o <<NL>>, DotMd),
      Path(NotesDir, OldDate, <<"a">>, DotMd),
      Path(PostsDir, BadDate, <<"a">>, DotMd)>>

FilePathSet == {FilePaths[i] : i \in 1..Len(FilePaths)}

\* the file at FilePaths[i] holds the contents i
FileSystemOf(I) == [p \in {FilePaths[i] : i \in I} |->
                        CHOOSE i \in I : FilePaths[i] = p]

InitFileSystems ==
    {FileSystemOf(I) : I \in {J \in SUBSET (1..Len(FilePaths)) :
                                    Cardinality(J) <= MaxFiles}}

\* titles: up to MaxTitleParts pieces
TitlePieces == {<<"a">>, Dash, DotMd, <<NL>>}

RECURSIVE TitlesOf(_)
TitlesOf(n) ==
    IF n = 0 THEN {<<>>}
    ELSE LET shorter == TitlesOf(n - 1)
         IN shorter \cup {t \o piece : t \in shorter, piece \in TitlePieces}

Inputs ==
    {Path(dir, date, title, suffix) :
        dir \in {PostsDir, NotesDir},
        date \in {OldDate, BadDate, Strftime(StartDate)},
        title \in TitlesOf(MaxTitleParts),
        suffix \in {DotMd, XMd, <<>>}}

-----------------------------------------------------------------------------
(* The script *)

NoLast == [ok |-> FALSE, new_post |-> <<>>, title |-> <<>>, day |-> NoDate]

Terminal == {"done", "error"}
Running == {"l7", "l9", "l12"}

\* what the next run knows of this one
Outcome ==
    IF pc = "done"
    THEN [ok |-> TRUE, new_post |-> new_post, title |-> parts.title, day |-> today]
    ELSE NoLast

\* the process starts; line 6: post = sys.argv[1]
Invoke(arg) ==
    /\ pc \in Terminal \cup {"idle"}
    /\ runs < MaxRuns
    /\ runs' = runs + 1
    /\ last' = Outcome
    /\ fs0' = fs
    /\ post' = arg
    /\ parts' = NoMatch
    /\ today' = NoDate
    /\ new_post' = <<>>
    /\ exit' = -1
    /\ attempts' = 0
    /\ renames' = 0
    /\ pc' = "l7"
    /\ UNCHANGED <<fs, clock, ticks, platform>>

\* the process starts without an argument; line 6 raises IndexError
InvokeNoArg ==
    /\ pc \in Terminal \cup {"idle"}
    /\ runs < MaxRuns
    /\ runs' = runs + 1
    /\ last' = Outcome
    /\ fs0' = fs
    /\ post' = <<>>
    /\ parts' = NoMatch
    /\ today' = NoDate
    /\ new_post' = <<>>
    /\ exit' = 1
    /\ attempts' = 0
    /\ renames' = 0
    /\ pc' = "error"
    /\ UNCHANGED <<fs, clock, ticks, platform>>

\* lines 7-8: parts = re.match(...); parts = parts.groupdict()
ReMatch ==
    /\ pc = "l7"
    /\ LET m == re_match(post)
       IN IF m.matched
          THEN /\ parts' = m
               /\ pc' = "l9"
               /\ exit' = exit
          ELSE /\ parts' = NoMatch
               /\ pc' = "error"
               /\ exit' = 1
    /\ UNCHANGED <<fs, fs0, clock, ticks, platform, post, today, new_post,
                   attempts, renames, runs, last>>

\* lines 9-10: today = datetime.datetime.today(); new_post = f'...'
FormatNewPost ==
    /\ pc = "l9"
    /\ today' = clock
    /\ new_post' = NewPost(clock, parts.title)
    /\ pc' = "l12"
    /\ UNCHANGED <<fs, fs0, clock, ticks, platform, post, parts, exit,
                   attempts, renames, runs, last>>

\* line 12 in a loop that tries a failed rename once more
Rename_with_retry ==
    /\ pc = "l12"
    /\ attempts' = attempts + 1
    /\ LET r == os_rename(fs, post, new_post, platform)
       IN IF r.ok
          THEN /\ fs' = r.fs
               /\ renames' = renames + 1
               /\ pc' = "done"
               /\ exit' = 0
          ELSE /\ fs' = fs
               /\ renames' = renames
               /\ pc' = IF attempts = 0 THEN "l12" ELSE "error"
               /\ exit' = IF attempts = 0 THEN exit ELSE 1
    /\ UNCHANGED <<fs0, clock, ticks, platform, post, parts, today, new_post,
                   runs, last>>

\* line 12: os.rename(post, new_post), then the process exits
Rename ==
    /\ pc = "l12"
    /\ attempts' = attempts + 1
    /\ LET r == os_rename(fs, post, new_post, platform)
       IN IF r.ok
          THEN /\ fs' = r.fs
               /\ renames' = renames + 1
               /\ pc' = "done"
               /\ exit' = 0
          ELSE /\ fs' = fs
               /\ renames' = renames
               /\ pc' = "error"
               /\ exit' = 1
    /\ UNCHANGED <<fs0, clock, ticks, platform, post, parts, today, new_post,
                   runs, last>>

\* midnight passes
Tick ==
    /\ ticks < MaxTicks
    /\ ticks' = ticks + 1
    /\ clock' = NextDay(clock)
    /\ UNCHANGED <<fs, fs0, platform, pc, post, parts, today, new_post, exit,
                   attempts, renames, runs, last>>

InitRun ==
    /\ clock = StartDate
    /\ ticks = 0
    /\ platform \in Platforms
    /\ pc = "idle"
    /\ post = <<>>
    /\ parts = NoMatch
    /\ today = NoDate
    /\ new_post = <<>>
    /\ exit = -1
    /\ attempts = 0
    /\ renames = 0
    /\ runs = 0
    /\ last = NoLast

\* a few files, named by FilePaths
Init ==
    /\ fs \in InitFileSystems
    /\ fs0 = fs
    /\ InitRun

InvokeAny == \E arg \in FilePathSet \cup DOMAIN fs : Invoke(arg)

Step == ReMatch \/ FormatNewPost \/ Rename

Next == InvokeAny \/ InvokeNoArg \/ Step \/ Tick

Spec == Init /\ [][Next]_vars

\* the script runs every line it reaches
FairSpec == Spec /\ WF_vars(Step)

\* one file, named by any of Inputs, and runs on the files that exist
InitPost ==
    /\ \E p \in Inputs : fs = [q \in {p} |-> 1]
    /\ fs0 = fs
    /\ InitRun

InvokeExisting == \E arg \in DOMAIN fs : Invoke(arg)

NextPost == InvokeExisting \/ Step \/ Tick

PostSpec == InitPost /\ [][NextPost]_vars

-----------------------------------------------------------------------------
(* The form of a post's path, as the documentation states it: *)
(* _posts/YYYY-MM-DD-<title>.md                                *)

FormHeadLen == Len(PostsDir) + Len(OldDate) + 1

IsValidForm(s) ==
    /\ Len(s) >= FormHeadLen + Len(DotMd)
    /\ SubSeq(s, 1, Len(PostsDir)) = PostsDir
    /\ \A i \in 1..Len(OldDate) :
          IF i \in {5, 8} THEN s[Len(PostsDir) + i] = "-"
          ELSE IsDigit(s[Len(PostsDir) + i])
    /\ s[FormHeadLen] = "-"
    /\ SubSeq(s, Len(s) - Len(DotMd) + 1, Len(s)) = DotMd

FormTitle(s) == SubSeq(s, FormHeadLen + 1, Len(s) - Len(DotMd))

FormDate(s) == SubSeq(s, Len(PostsDir) + 1, Len(PostsDir) + Len(OldDate))

DatedPath(date, title) == PostsDir \o Strftime(date) \o Dash \o title \o DotMd

Started == pc \in Running \cup Terminal

\* the paths at which the contents c are found
PathsHolding(c) == {p \in DOMAIN fs : fs[p] = c}

-----------------------------------------------------------------------------
(* Claims *)

\* C1: for every input path of the form _posts/YYYY-MM-DD-<title>.md, the
\* destination passed to the rename is _posts/<today>-<title>.md, with the
\* input's title character for character.
C1_DestinationKeepsTitle ==
    (attempts = 1 /\ IsValidForm(post) /\ post \in DOMAIN fs0)
        => new_post = DatedPath(today, FormTitle(post))

\* C2: a run on a path that is not of the form _posts/YYYY-MM-DD-<title>.md
\* ends in the error state and renames nothing.
C2_MalformedPathFails ==
    (pc \in Terminal /\ ~IsValidForm(post))
        => (pc = "error" /\ renames = 0 /\ fs = fs0)

\* C3: when a file already exists at the destination, a path other than the
\* source's, the run of a post that exists ends in the error state and the
\* file system is as it was: source and destination files are untouched.
C3_ExistingDestinationFails ==
    (/\ pc \in Terminal
     /\ attempts = 1
     /\ IsValidForm(post)
     /\ post \in DOMAIN fs0
     /\ new_post \in DOMAIN fs0
     /\ new_post # post)
        => (pc = "error" /\ fs = fs0)

\* C4: after any run, every file other than the one the argument names is at
\* the same path with the same contents as before the run.
C4_OtherFilesUntouched ==
    pc \in Terminal =>
        \A p \in (DOMAIN fs0) \ {post} : p \in DOMAIN fs /\ fs[p] = fs0[p]

\* C5 as stated: after a successful run the post is at the new path with its
\* contents, and no file remains at the original path.
C5_OriginalPathVacated ==
    pc = "done" =>
        /\ new_post \in DOMAIN fs
        /\ fs[new_post] = fs0[post]
        /\ post \notin DOMAIN fs

\* C5 as amended: after a successful run the post is at the new path with its
\* contents, and no file remains at the original path when the two paths
\* differ; and in every state of a run on an existing post, the post's
\* contents are at exactly one path (never at both paths, never at neither).
C5_RenameMovesPost ==
    /\ pc = "done" =>
          /\ post \in DOMAIN fs0
          /\ new_post \in DOMAIN fs
          /\ fs[new_post] = fs0[post]
          /\ (new_post # post => post \notin DOMAIN fs)
    /\ (Started /\ post \in DOMAIN fs0) =>
          /\ Cardinality(PathsHolding(fs0[post])) = 1
          /\ PathsHolding(fs0[post]) \subseteq {post, new_post}

C5_Witness ==
    /\ pc = "done"
    /\ renames = 1
    /\ new_post # post
    /\ IsValidForm(post)
    /\ new_post \in DOMAIN fs

\* C6: when the argument matches the pattern and no file exists at it, the
\* run ends in the error state with a non-zero exit code, and the file system
\* is what it was before the run (nothing appears at the destination).
C6_MissingSourceFails ==
    (Started /\ parts.matched /\ post \notin DOMAIN fs0) =>
        /\ pc # "done"
        /\ fs = fs0
        /\ (pc = "error" => exit > 0)
        /\ (attempts = 1 => pc = "error")

C6_Witness ==
    /\ pc = "error"
    /\ attempts = 1
    /\ parts.matched
    /\ post \notin DOMAIN fs0
    /\ new_post \notin DOMAIN fs

\* C7: a successful run on day d1 followed by a successful run on another
\* day d2 on the first run's output leaves two different file names,
\* _posts/<d1>-<title>.md and then _posts/<d2>-<title>.md, where <title> is
\* the title the first run extracted.
C7_DifferentDaysDifferentNames ==
    (pc = "done" /\ last.ok /\ post = last.new_post /\ today # last.day) =>
        /\ last.new_post = DatedPath(last.day, last.title)
        /\ new_post = DatedPath(today, last.title)
        /\ new_post # last.new_post
        /\ new_post \in DOMAIN fs
        /\ last.new_post \notin DOMAIN fs

C7_Witness ==
    /\ pc = "done"
    /\ last.ok
    /\ post = last.new_post
    /\ today # last.day
    /\ last.title # <<>>

\* C8: a run makes at most one rename attempt and never retries; it exits
\* with code 0 exactly when the rename was performed, and exits non-zero with
\* nothing renamed otherwise; and every run that has started terminates.
C8_ExitInvariant ==
    /\ attempts <= 1
    /\ renames <= attempts
    /\ (pc \in Running \cup {"idle"} => exit = -1 /\ renames = 0)
    /\ (pc = "done" => exit = 0 /\ renames = 1)
    /\ (pc = "error" => exit > 0 /\ renames = 0 /\ fs = fs0)
    /\ (pc \in Terminal => (exit = 0 <=> renames = 1))

C8_TerminatesAfterOneAttempt ==
    /\ []C8_ExitInvariant
    /\ (pc \in Running) ~> (pc \in Terminal)

C8_Witness ==
    /\ pc = "error"
    /\ attempts = 1
    /\ post \in DOMAIN fs0
    /\ runs = MaxRuns

\* C9: the destination path of a run that got past the match is accepted by
\* the pattern with the same title as the input's, and it is of the
\* documented form with that title; so a run fed the previous run's output
\* extracts the title the previous run extracted.
C9_OutputRoundTrips ==
    (Started /\ new_post # <<>>) =>
        /\ re_match(new_post).matched
        /\ re_match(new_post).title = parts.title
        /\ IsValidForm(new_post)
        /\ FormTitle(new_post) = parts.title
        /\ ((last.ok /\ post = last.new_post) => parts.title = last.title)

C9_Witness ==
    /\ pc = "done"
    /\ last.ok
    /\ post = last.new_post
    /\ today # last.day
    /\ \E i \in 1..Len(parts.title) : parts.title[i] = "-"

\* C10: when the date in an existing post's path is already today's date,
\* the destination is the source path, the run succeeds with exit code 0 and
\* the file system is unchanged.
C10_SameDayIsNoOp ==
    (/\ pc \in Terminal
     /\ attempts = 1
     /\ IsValidForm(post)
     /\ post \in DOMAIN fs0
     /\ FormDate(post) = Strftime(today))
        => (new_post = post /\ pc = "done" /\ exit = 0 /\ fs = fs0)

====
